---- MODULE Spec2Model ----
(***************************************************************************)
(* Server actions of app/lib/actions.ts: authenticate, createInvoice,      *)
(* updateInvoice and deleteInvoice, with the collaborators they call (the  *)
(* sql client, revalidatePath, redirect, signIn) modelled by the effect    *)
(* the actions observe.  One server action runs at a time; every await is  *)
(* a separate step.                                                        *)
(*                                                                         *)
(* Numbers are exact decimals: the integer n stands for n / Scale.  IEEE   *)
(* rounding of amount * 100 is not modelled.                               *)
(***************************************************************************)
EXTENDS Integers, Sequences, FiniteSets, TLC

VARIABLES
    invoices,   \* the invoices table: a set of rows
    nextId,     \* the identifier storage gives to the next inserted row
    op,         \* the server action running ("none" between requests)
    pc,         \* its position
    id,         \* updateInvoice / deleteInvoice: the id argument
    formData,   \* the FormData argument, as formData.get sees it
    log,        \* the collaborator calls of the running action, in order
    outcome,    \* how the action ended: "none", "returned", "threw", "redirected"
    ret,        \* the value returned, or the error thrown
    err,        \* the error the awaited collaborator raised, if any
    date,       \* createInvoice: the day computed before the INSERT
    pre         \* the invoices table when the action was called

vars == <<invoices, nextId, op, pc, id, formData, log, outcome, ret, err, date, pre>>

(* ------------------------------ bounds -------------------------------- *)

\* identifiers the storage gives out (rows ever inserted)
MaxId == 1
\* fractional digits an exact decimal carries
FracDigits == 3

RECURSIVE Pow10(_)
Pow10(n) == IF n = 0 THEN 1 ELSE 10 * Pow10(n - 1)

Scale == Pow10(FracDigits)

\* identifiers a caller can pass: those the storage gives out and one it never does
Ids == 1..(MaxId + 1)

(* ------------------------- values and inputs -------------------------- *)

\* formData.get(name): null when the field is absent, else the string sent.
\* customerId and status are kept as strings, amount as its characters (for
\* Number); amounts carry at most FracDigits fractional digits.
Null == [t |-> "null", s |-> ""]
Str(x) == [t |-> "string", s |-> x]
NullChars == [t |-> "null", s |-> <<>>]
Chars(x) == [t |-> "string", s |-> x]

\* what `undefined` and "no error" look like in ret / err
Undefined == [t |-> "undefined"]
NoError == [t |-> "none", type |-> ""]

CustomerInputs == {Null, Str(""), Str("c1")}
AmountInputs ==
    {NullChars, Chars(<<>>), Chars(<<"a", "b", "c">>), Chars(<<"0">>), Chars(<<"-", "5">>),
     Chars(<<"0", ".", "0", "0", "1">>), Chars(<<"2", "5", "0", ".", "0", "0">>)}
StatusInputs == {Null, Str("paid"), Str("pending"), Str("foo")}

FormDatas == [customerId : CustomerInputs, amount : AmountInputs, status : StatusInputs]
NoForm == [customerId |-> Null, amount |-> NullChars, status |-> Null]

\* errors the sql client can raise
SqlErrors == {[t |-> "PostgresError", type |-> "23503"], [t |-> "Error", type |-> "CONNECT_TIMEOUT"]}
\* what signIn can do: resolve, raise an AuthError of some type, raise something else
SignInErrors ==
    {[t |-> "AuthError", type |-> "CredentialsSignin"],
     [t |-> "AuthError", type |-> "CallbackRouteError"],
     [t |-> "AuthError", type |-> "AccessDenied"],
     [t |-> "Error", type |-> "NEXT_REDIRECT"]}

\* new Date().toISOString().split('T')[0]: the days the clock can show
Days == {"2026-11-02", "2026-11-03"}
NoDate == ""

ListingPath == "/dashboard/invoices"

(* ---------------------------- JS Number() ----------------------------- *)

NaN == [nan |-> TRUE, v |-> 0]
Num(n) == [nan |-> FALSE, v |-> n]

Digits == {"0", "1", "2", "3", "4", "5", "6", "7", "8", "9"}
DigitVal(c) ==
    CASE c = "0" -> 0 [] c = "1" -> 1 [] c = "2" -> 2 [] c = "3" -> 3 [] c = "4" -> 4
      [] c = "5" -> 5 [] c = "6" -> 6 [] c = "7" -> 7 [] c = "8" -> 8 [] c = "9" -> 9

AllDigits(s) == \A i \in 1..Len(s) : s[i] \in Digits

RECURSIVE IntVal(_)
IntVal(s) == IF s = <<>> THEN 0 ELSE 10 * IntVal(SubSeq(s, 1, Len(s) - 1)) + DigitVal(s[Len(s)])

\* an unsigned decimal literal: digits, optionally a point and more digits
UnsignedNumber(s) ==
    LET dots == {i \in 1..Len(s) : s[i] = "."}
    IN  IF dots = {}
        THEN IF AllDigits(s) /\ s # <<>> THEN Num(IntVal(s) * Scale) ELSE NaN
        ELSE IF Cardinality(dots) > 1 THEN NaN
        ELSE LET d == CHOOSE i \in dots : TRUE
                 whole == SubSeq(s, 1, d - 1)
                 frac == SubSeq(s, d + 1, Len(s))
             IN  IF AllDigits(whole) /\ AllDigits(frac) /\ Len(whole) + Len(frac) > 0
                    /\ Len(frac) <= FracDigits
                 THEN Num(IntVal(whole) * Scale + IntVal(frac) * Pow10(FracDigits - Len(frac)))
                 ELSE NaN

\* Number(x) as z.coerce applies it: null and "" give 0, a decimal literal its
\* value, anything else NaN
Number(x) ==
    IF x.t = "null" THEN Num(0)
    ELSE IF x.s = <<>> THEN Num(0)
    ELSE IF x.s[1] = "-"
         THEN LET u == UnsignedNumber(Tail(x.s)) IN IF u.nan THEN NaN ELSE Num(0 - u.v)
    ELSE IF x.s[1] = "+" THEN UnsignedNumber(Tail(x.s))
    ELSE UnsignedNumber(x.s)

(* ----------------------------- FormSchema ----------------------------- *)

CustomerMsg == "Please select a customer"
AmountMsg == "Please enter an amount greater than $0."
StatusMsg == "Please select an invoice status"
\* zod's own messages, for the issues the schema gives no message for
NanMsg == "Expected number, received nan"
EnumMsg == "Invalid enum value. Expected 'paid' | 'pending'"

\* customerId: z.string({invalid_type_error}): any string passes
customerIdIssues(x) == IF x.t = "string" THEN <<>> ELSE <<CustomerMsg>>

\* amount: z.coerce.number().gt(0, {message}): NaN is a type issue, and the
\* gt check (the only one carrying the message) runs on numbers only
amountIssues(x) ==
    LET n == Number(x)
    IN  IF n.nan THEN <<NanMsg>>
        ELSE IF n.v > 0 THEN <<>> ELSE <<AmountMsg>>

\* status: z.enum(['paid', 'pending'], {invalid_type_error}): the message is
\* for a non-string; a string outside the enum is an invalid_enum_value issue
statusIssues(x) ==
    IF x.t # "string" THEN <<StatusMsg>>
    ELSE IF x.s \in {"paid", "pending"} THEN <<>> ELSE <<EnumMsg>>

Fields == {"customerId", "amount", "status"}

FieldIssues(fd, f) ==
    CASE f = "customerId" -> customerIdIssues(fd.customerId)
      [] f = "amount" -> amountIssues(fd.amount)
      [] f = "status" -> statusIssues(fd.status)

\* FormSchema.omit({id, date}).safeParse(...): success, the parsed data, and
\* error.flatten().fieldErrors (only the fields that have issues)
FormSchema(fd) ==
    LET bad == {f \in Fields : FieldIssues(fd, f) # <<>>}
    IN  [success |-> bad = {},
         fieldErrors |-> [f \in bad |-> FieldIssues(fd, f)],
         data |-> [customerId |-> fd.customerId.s,
                   amount |-> Number(fd.amount).v,
                   status |-> fd.status.s]]

CreateInvoice(fd) == FormSchema(fd)
UpdateInvoice(fd) == FormSchema(fd)

(* ------------------------------- state -------------------------------- *)

Init ==
    /\ invoices = {}
    /\ nextId = 1
    /\ op = "none"
    /\ pc = "idle"
    /\ id = 0
    /\ formData = NoForm
    /\ log = <<>>
    /\ outcome = "none"
    /\ ret = Undefined
    /\ err = NoError
    /\ date = NoDate
    /\ pre = {}

\* one collaborator call: its name, its text (statement kind or path), the
\* identifier it is scoped to (0: none) and whether it raised
Call(name, text, key, raised) == [call |-> name, text |-> text, key |-> key, raised |-> raised]

\* a server action is invoked
Begin(name, i, fd) ==
    /\ pc = "idle"
    /\ op' = name
    /\ id' = i
    /\ formData' = fd
    /\ err' = NoError
    /\ pre' = invoices

\* the action goes on to position p
Goto(p) ==
    /\ pc' = p
    /\ outcome' = "none"
    /\ ret' = Undefined

\* the action returns v
Return(v) ==
    /\ pc' = "done"
    /\ outcome' = "returned"
    /\ ret' = v

\* the action throws e
Throw(e) ==
    /\ pc' = "done"
    /\ outcome' = "threw"
    /\ ret' = e

(* --------------------------- createInvoice ---------------------------- *)

\* createInvoice without the early return of lines 64-69
createInvoiceNoEarlyReturn(fd, now) ==
    /\ nextId <= MaxId
    /\ Begin("createInvoice", 0, fd)
    /\ log' = <<>>
    /\ Goto("sql")
    /\ date' = now
    /\ UNCHANGED <<invoices, nextId>>

\* lines 55-74: validate (now: the clock's day); return the field errors, or go on to the INSERT
createInvoice(fd, now) ==
    /\ nextId <= MaxId
    /\ Begin("createInvoice", 0, fd)
    /\ log' = <<>>
    /\ IF ~CreateInvoice(fd).success
       THEN /\ Return([errors |-> CreateInvoice(fd).fieldErrors,
                       message |-> "Missing Fields. Failed to create invoices."])
            /\ date' = NoDate
       ELSE /\ Goto("sql")
            /\ date' = now
    /\ UNCHANGED <<invoices, nextId>>

\* lines 72-73, 78-81: the INSERT succeeds
createInvoiceInsert ==
    /\ op = "createInvoice" /\ pc = "sql"
    /\ LET d == CreateInvoice(formData).data
           amountInCents == d.amount * 100
       IN  invoices' = invoices \cup
               {[id |-> nextId, customer_id |-> d.customerId, amount |-> amountInCents,
                 status |-> d.status, date |-> date]}
    /\ nextId' = nextId + 1
    /\ log' = Append(log, Call("sql", "INSERT", 0, FALSE))
    /\ pc' = "revalidate"
    /\ UNCHANGED <<op, id, formData, date, outcome, ret, err, pre>>

\* createInvoice's catch block without its return: execution falls through
createInvoiceCatchFallsThrough(e) ==
    /\ op = "createInvoice" /\ pc = "sql"
    /\ log' = Append(log, Call("sql", "INSERT", 0, TRUE))
    /\ err' = e
    /\ pc' = "revalidate"
    /\ UNCHANGED <<invoices, nextId, op, id, formData, date, outcome, ret, pre>>

\* lines 82-85: the INSERT raises e
createInvoiceCatch(e) ==
    /\ op = "createInvoice" /\ pc = "sql"
    /\ log' = Append(log, Call("sql", "INSERT", 0, TRUE))
    /\ err' = e
    /\ Return([message |-> "Database Error: Failed to create invoice"])
    /\ UNCHANGED <<invoices, nextId, op, id, formData, date, pre>>

(* --------------------------- updateInvoice ---------------------------- *)

\* lines 93-113: validate; return the field errors, or go on to the UPDATE
updateInvoice(i, fd) ==
    /\ Begin("updateInvoice", i, fd)
    /\ log' = <<>>
    /\ IF ~UpdateInvoice(fd).success
       THEN Return([errors |-> UpdateInvoice(fd).fieldErrors,
                    message |-> "Missing Fields. Failed to update invoice"])
       ELSE Goto("sql")
    /\ UNCHANGED <<invoices, nextId, date>>

\* the UPDATE without its WHERE clause
updateInvoiceUpdateNoWhere ==
    /\ op = "updateInvoice" /\ pc = "sql"
    /\ LET d == UpdateInvoice(formData).data
           amountInCents == d.amount * 100
       IN  invoices' =
               {[r EXCEPT !.customer_id = d.customerId, !.amount = amountInCents,
                          !.status = d.status] : r \in invoices}
    /\ log' = Append(log, Call("sql", "UPDATE", id, FALSE))
    /\ pc' = "revalidate"
    /\ UNCHANGED <<nextId, op, id, formData, date, outcome, ret, err, pre>>

\* lines 112-120: the UPDATE succeeds, on the rows WHERE id = ${id}
updateInvoiceUpdate ==
    /\ op = "updateInvoice" /\ pc = "sql"
    /\ LET d == UpdateInvoice(formData).data
           amountInCents == d.amount * 100
       IN  invoices' =
               {IF r.id = id
                THEN [r EXCEPT !.customer_id = d.customerId, !.amount = amountInCents,
                               !.status = d.status]
                ELSE r : r \in invoices}
    /\ log' = Append(log, Call("sql", "UPDATE", id, FALSE))
    /\ pc' = "revalidate"
    /\ UNCHANGED <<nextId, op, id, formData, date, outcome, ret, err, pre>>

\* updateInvoice without the try/catch: the error of the UPDATE escapes
updateInvoiceCatchRethrows(e) ==
    /\ op = "updateInvoice" /\ pc = "sql"
    /\ log' = Append(log, Call("sql", "UPDATE", id, TRUE))
    /\ err' = e
    /\ Throw(e)
    /\ UNCHANGED <<invoices, nextId, op, id, formData, date, pre>>

\* lines 121-123: the UPDATE raises e
updateInvoiceCatch(e) ==
    /\ op = "updateInvoice" /\ pc = "sql"
    /\ log' = Append(log, Call("sql", "UPDATE", id, TRUE))
    /\ err' = e
    /\ Return([message |-> "Database Error: Failed to update database"])
    /\ UNCHANGED <<invoices, nextId, op, id, formData, date, pre>>

(* --------------------------- deleteInvoice ---------------------------- *)

\* line 129: no validation, straight to the DELETE
deleteInvoice(i) ==
    /\ Begin("deleteInvoice", i, NoForm)
    /\ log' = <<>>
    /\ Goto("sql")
    /\ UNCHANGED <<invoices, nextId, date>>

\* lines 130-133: the DELETE succeeds, on the rows WHERE id = ${id}
deleteInvoiceDelete ==
    /\ op = "deleteInvoice" /\ pc = "sql"
    /\ invoices' = {r \in invoices : r.id # id}
    /\ log' = Append(log, Call("sql", "DELETE", id, FALSE))
    /\ pc' = "revalidate"
    /\ UNCHANGED <<nextId, op, id, formData, date, outcome, ret, err, pre>>

\* deleteInvoice with the try/catch of the other two actions around the DELETE
deleteInvoiceRaiseCaught(e) ==
    /\ op = "deleteInvoice" /\ pc = "sql"
    /\ log' = Append(log, Call("sql", "DELETE", id, TRUE))
    /\ err' = e
    /\ Return([message |-> "Database Error: Failed to delete invoice"])
    /\ UNCHANGED <<invoices, nextId, op, id, formData, date, pre>>

\* lines 130-133: the DELETE raises e; nothing catches it
deleteInvoiceRaise(e) ==
    /\ op = "deleteInvoice" /\ pc = "sql"
    /\ log' = Append(log, Call("sql", "DELETE", id, TRUE))
    /\ err' = e
    /\ Throw(e)
    /\ UNCHANGED <<invoices, nextId, op, id, formData, date, pre>>

(* --------------------- revalidatePath and redirect -------------------- *)

\* lines 87, 125, 135: revalidatePath('/dashboard/invoices'); deleteInvoice
\* ends here, the other two go on to redirect
revalidatePath ==
    /\ pc = "revalidate"
    /\ log' = Append(log, Call("revalidatePath", ListingPath, 0, FALSE))
    /\ IF op = "deleteInvoice"
       THEN Return(Undefined)
       ELSE /\ pc' = "redirect"
            /\ UNCHANGED <<outcome, ret>>
    /\ UNCHANGED <<invoices, nextId, op, id, formData, date, err, pre>>

\* lines 88, 126: redirect('/dashboard/invoices') does not return
redirect ==
    /\ pc = "redirect"
    /\ log' = Append(log, Call("redirect", ListingPath, 0, FALSE))
    /\ pc' = "done"
    /\ outcome' = "redirected"
    /\ UNCHANGED <<invoices, nextId, op, id, formData, date, ret, err, pre>>

(* ---------------------------- authenticate ---------------------------- *)

\* lines 11-16: await signIn('credentials', formData)
authenticate ==
    /\ Begin("authenticate", 0, NoForm)
    /\ log' = <<>>
    /\ Goto("signIn")
    /\ UNCHANGED <<invoices, nextId, date>>

\* lines 16, 28: signIn resolves; the function falls off its end
authenticateSignedIn ==
    /\ op = "authenticate" /\ pc = "signIn"
    /\ log' = Append(log, Call("signIn", "credentials", 0, FALSE))
    /\ Return(Undefined)
    /\ UNCHANGED <<invoices, nextId, op, id, formData, date, err, pre>>

\* authenticate without the final `throw error`: every error becomes a message
authenticateCatchSwallows(e) ==
    /\ op = "authenticate" /\ pc = "signIn"
    /\ log' = Append(log, Call("signIn", "credentials", 0, TRUE))
    /\ err' = e
    /\ IF e.t = "AuthError" /\ e.type = "CredentialsSignin"
       THEN Return(Str("Invalid credentials."))
       ELSE Return(Str("Something went wrong."))
    /\ UNCHANGED <<invoices, nextId, op, id, formData, date, pre>>

\* lines 17-27: signIn raises e
authenticateCatch(e) ==
    /\ op = "authenticate" /\ pc = "signIn"
    /\ log' = Append(log, Call("signIn", "credentials", 0, TRUE))
    /\ err' = e
    /\ IF e.t = "AuthError"
       THEN IF e.type = "CredentialsSignin"
            THEN Return(Str("Invalid credentials."))
            ELSE Return(Str("Something went wrong."))
       ELSE Throw(e)
    /\ UNCHANGED <<invoices, nextId, op, id, formData, date, pre>>

(* --------------------------- the environment -------------------------- *)

\* the request is over; the next one starts from a fresh call frame
NextRequest ==
    /\ pc = "done"
    /\ pc' = "idle"
    /\ op' = "none"
    /\ id' = 0
    /\ formData' = NoForm
    /\ log' = <<>>
    /\ outcome' = "none"
    /\ ret' = Undefined
    /\ err' = NoError
    /\ date' = NoDate
    /\ pre' = {}
    /\ UNCHANGED <<invoices, nextId>>

Next ==
    \/ \E fd \in FormDatas, now \in Days : createInvoice(fd, now)
    \/ createInvoiceInsert
    \/ \E e \in SqlErrors : createInvoiceCatch(e)
    \/ \E i \in Ids, fd \in FormDatas : updateInvoice(i, fd)
    \/ updateInvoiceUpdate
    \/ \E e \in SqlErrors : updateInvoiceCatch(e)
    \/ \E i \in Ids : deleteInvoice(i)
    \/ deleteInvoiceDelete
    \/ \E e \in SqlErrors : deleteInvoiceRaise(e)
    \/ revalidatePath
    \/ redirect
    \/ authenticate
    \/ authenticateSignedIn
    \/ \E e \in SignInErrors : authenticateCatch(e)
    \/ NextRequest

Spec == Init /\ [][Next]_vars

(* ------------------------------ properties --------------------------- *)

Writing == op \in {"createInvoice", "updateInvoice"}
Started == pc # "idle"

ValidationMessage ==
    IF op = "createInvoice" THEN "Missing Fields. Failed to create invoices."
    ELSE "Missing Fields. Failed to update invoice"
DatabaseMessage ==
    IF op = "createInvoice" THEN "Database Error: Failed to create invoice"
    ELSE "Database Error: Failed to update database"

Statement == IF op = "createInvoice" THEN "INSERT" ELSE IF op = "updateInvoice" THEN "UPDATE" ELSE "DELETE"
Sql(raised) == Call("sql", Statement, id, raised)
Revalidated == Call("revalidatePath", ListingPath, 0, FALSE)
Redirected == Call("redirect", ListingPath, 0, FALSE)
SuccessLog == <<Sql(FALSE), Revalidated, Redirected>>

IsPrefix(s, t) == Len(s) <= Len(t) /\ s = SubSeq(t, 1, Len(s))
Has(seq, x) == \E k \in 1..Len(seq) : seq[k] = x

\* the running action returned a validation result that names field f with message m
RejectedWith(f, m) ==
    /\ outcome = "returned"
    /\ DOMAIN ret = {"errors", "message"}
    /\ f \in DOMAIN ret.errors
    /\ Has(ret.errors[f], m)

\* C1: when schema validation of the form input fails, createInvoice and
\* updateInvoice return the per-field error lists (exactly the fields that
\* have issues, each with its issues) and the operation's message; no
\* statement is issued, nothing is revalidated, no redirect happens and the
\* invoices table is unchanged.
C1_ValidationFailure ==
    (Writing /\ Started /\ \E f \in Fields : FieldIssues(formData, f) # <<>>) =>
        /\ pc = "done"
        /\ outcome = "returned"
        /\ DOMAIN ret = {"errors", "message"}
        /\ ret.message = ValidationMessage
        /\ DOMAIN ret.errors = {f \in Fields : FieldIssues(formData, f) # <<>>}
        /\ \A f \in DOMAIN ret.errors : ret.errors[f] = FieldIssues(formData, f)
        /\ log = <<>>
        /\ invoices = pre

\* an update with every field invalid was rejected while a row exists
C1_Witness ==
    /\ op = "updateInvoice" /\ pc = "done"
    /\ invoices # {}
    /\ DOMAIN ret = {"errors", "message"}
    /\ DOMAIN ret.errors = Fields

\* C2: every row of the invoices table has an amount in minor units that is
\* an integer greater than zero.
C2_AmountPositiveInteger ==
    \A r \in invoices : r.amount > 0 /\ r.amount % Scale = 0

\* C3: an amount that coerces to a number <= 0, or to no number, is
\* rejected with the amount message in errors.amount, and no statement is
\* issued.
C3_AmountRejected ==
    (Writing /\ Started /\ (Number(formData.amount).nan \/ Number(formData.amount).v <= 0)) =>
        /\ RejectedWith("amount", AmountMsg)
        /\ log = <<>>

\* C4: a status that is not "paid" or "pending", missing or any other
\* string, is rejected with the status message in errors.status.
C4_StatusRejected ==
    (Writing /\ Started /\ formData.status \notin {Str("paid"), Str("pending")}) =>
        RejectedWith("status", StatusMsg)

\* C5: a customerId that is missing or the empty string is rejected with
\* the customer message in errors.customerId, and no row is persisted.
C5_CustomerRejected ==
    (Writing /\ Started /\ formData.customerId \in {Null, Str("")}) =>
        /\ RejectedWith("customerId", CustomerMsg)
        /\ invoices = pre

\* C6: when the statement of createInvoice or updateInvoice raises, the call
\* returns only the operation's generic database message (no field errors),
\* does not throw, issued the statement once, and neither revalidates nor
\* redirects; the table is unchanged.
C6_DatabaseFailure ==
    (Writing /\ err # NoError) =>
        /\ pc = "done"
        /\ outcome = "returned"
        /\ DOMAIN ret = {"message"}
        /\ ret.message = DatabaseMessage
        /\ log = <<Sql(TRUE)>>
        /\ invoices = pre

\* an update of an existing row failed in the database
C6_Witness ==
    /\ op = "updateInvoice" /\ err \in SqlErrors
    /\ \E r \in invoices : r.id = id
    /\ outcome = "returned"

\* C7: in createInvoice and updateInvoice the cache is revalidated only
\* after the call's single statement succeeded, the redirect to
\* /dashboard/invoices comes only after that revalidation, and the redirect
\* is last: a call that redirected made exactly one statement, one
\* revalidation and one redirect, in that order, and takes no further step.
C7_StatementRevalidateRedirect ==
    Writing =>
        /\ IsPrefix(log, SuccessLog) \/ log = <<Sql(TRUE)>>
        /\ (pc = "sql") => log = <<>>
        /\ (pc = "revalidate") => log = <<Sql(FALSE)>>
        /\ (pc = "redirect") => log = <<Sql(FALSE), Revalidated>>
        /\ (outcome = "redirected") <=> (log = SuccessLog)
        /\ (outcome = "redirected") => pc = "done"
        /\ (pc = "done") =>
              ~ENABLED (createInvoiceInsert \/ updateInvoiceUpdate \/ revalidatePath \/ redirect
                        \/ \E e \in SqlErrors : createInvoiceCatch(e) \/ updateInvoiceCatch(e))

\* a createInvoice call inserted a row and redirected
C7_Witness ==
    /\ op = "createInvoice" /\ outcome = "redirected"
    /\ invoices # pre

\* C8: updateInvoice(id, input) leaves the set of rows, every row's id and
\* date, and every row with another id as they were; when no row has the
\* id the table is unchanged and, the statement not raising, the call ends
\* as a success (revalidation, then redirect).
C8_UpdateFrame ==
    (op = "updateInvoice" /\ Started) =>
        /\ Cardinality(invoices) = Cardinality(pre)
        /\ \A r \in invoices :
              \E q \in pre : q.id = r.id /\ q.date = r.date /\ (r.id # id => r = q)
        /\ (\A q \in pre : q.id # id) => invoices = pre
        /\ ((\A q \in pre : q.id # id) /\ pc = "done" /\ err = NoError
                /\ \A f \in Fields : FieldIssues(formData, f) = <<>>) =>
              (outcome = "redirected" /\ log = SuccessLog)

\* an update that matched no row of a non-empty table ended with the redirect
C8_Witness ==
    /\ op = "updateInvoice" /\ outcome = "redirected"
    /\ pre # {}
    /\ \A q \in pre : q.id # id

\* C9: deleteInvoice(id) issues one DELETE scoped to id; if it does not
\* raise (also when no row has the id) the cache is revalidated once
\* afterwards and the call returns normally; if it raises, that same error
\* is thrown to the caller and nothing is revalidated.
C9_Delete ==
    (op = "deleteInvoice" /\ Started) =>
        /\ log \in {<<>>, <<Sql(FALSE)>>, <<Sql(FALSE), Revalidated>>, <<Sql(TRUE)>>}
        /\ (pc = "done" /\ err = NoError) =>
              /\ outcome = "returned" /\ ret = Undefined
              /\ log = <<Sql(FALSE), Revalidated>>
              /\ invoices = {r \in pre : r.id # id}
        /\ (err # NoError) =>
              /\ pc = "done" /\ outcome = "threw" /\ ret = err
              /\ log = <<Sql(TRUE)>>
              /\ invoices = pre

\* a delete of an identifier no row has returned normally after revalidating
C9_Witness ==
    /\ op = "deleteInvoice" /\ outcome = "returned"
    /\ pre # {}
    /\ invoices = pre

\* C10: authenticate returns nothing when signIn resolves, "Invalid
\* credentials." on an AuthError of type CredentialsSignin, "Something went
\* wrong." on an AuthError of any other type, and throws the same error
\* when it is not an AuthError.
C10_Authenticate ==
    (op = "authenticate" /\ pc = "done") =>
        /\ log \in {<<Call("signIn", "credentials", 0, FALSE)>>, <<Call("signIn", "credentials", 0, TRUE)>>}
        /\ (err = NoError) => (outcome = "returned" /\ ret = Undefined)
        /\ (err.t = "AuthError" /\ err.type = "CredentialsSignin") =>
              (outcome = "returned" /\ ret = Str("Invalid credentials."))
        /\ (err.t = "AuthError" /\ err.type # "CredentialsSignin") =>
              (outcome = "returned" /\ ret = Str("Something went wrong."))
        /\ (err # NoError /\ err.t # "AuthError") => (outcome = "threw" /\ ret = err)

\* signIn raised an AuthError other than CredentialsSignin
C10_Witness ==
    /\ op = "authenticate" /\ pc = "done"
    /\ err.t = "AuthError" /\ err.type # "CredentialsSignin"

====
